---------------------------- MODULE Spec2Model ----------------------------
(***************************************************************************)
(* A model of ancient_books.py: the font-size search, the spacing          *)
(* reconciliation of adjust_font, the line splitting of split_paragraph    *)
(* and split_text, the paginating worker-pool dispatch of gen_images and   *)
(* the pen movement of gen_image_with_fixed_size.                          *)
(*                                                                         *)
(* Texts are sequences of labelled characters <<tag, k>>: every character  *)
(* of a book is distinct, so any loss, duplication or reordering shows.    *)
(* The layout code only ever reads lengths and slices, never characters.   *)
(***************************************************************************)
EXTENDS Integers, Sequences, FiniteSets, TLC

VARIABLES
    \* split_paragraph
    params,          \* the program parameter dictionary after adjust_font
    sentences,       \* paragraph.get('texts')
    annotations,     \* paragraph.get('annotations')
    lines,           \* the local list 'lines'
    remain_height,   \* the local 'remain_height'
    i,               \* the loop index (1-based here)
    pc,              \* position in split_paragraph
    \* gen_images and split_text
    texts,           \* the chapters of the book
    text_lines,      \* the flat Line list of split_text
    chapter_starts,  \* len(text_lines) when each chapter's iteration began
    gpc,             \* position in gen_images
    tasks,           \* the submitted jobs: (part, page) per AsyncResult
    page,            \* the page counter
    status,          \* per job: queued, running, ok, failed or terminated
    next_get,        \* the job the collecting loop waits for (1-based)
    logged,          \* the pages whose exception gen_images logged
    saved,           \* the pages whose image was saved
    \* calculate_font_size
    font,            \* the glyph box of the font at each size loaded so far
    args,            \* the arguments of the call
    range_next,      \* the next value of range(font_size, 0, -1)
    size,            \* the local 'size'
    char_width,      \* the local 'char_width'
    char_height,     \* the local 'char_height'
    fpc              \* position in calculate_font_size

paraVars == <<sentences, annotations, lines, remain_height, i, pc>>

bookVars == <<texts, text_lines, chapter_starts>>

poolVars == <<tasks, page, status, next_get, logged, saved>>

fontVars == <<font, args, range_next, size, char_width, char_height, fpc>>

vars == <<params, sentences, annotations, lines, remain_height, i, pc,
          texts, text_lines, chapter_starts, gpc,
          tasks, page, status, next_get, logged, saved,
          font, args, range_next, size, char_width, char_height, fpc>>

-----------------------------------------------------------------------------
(* Bounds of the model *)

MaxItems == 2            \* sentences of a paragraph
MaxSentenceLen == 2      \* characters of a sentence
MaxAnnotationLen == 3    \* characters of an annotation
MaxCharHeight == 2       \* measured character height, in pixels
MaxCharSpace == 1        \* configured character spacing, in pixels
MaxBoxHeight == 4        \* text box height, in pixels
MaxChapters == 2         \* chapters of a book
MaxTitleLen == 2         \* characters of a chapter name
MaxTitleAnnotationLen == 1   \* characters of a chapter annotation
MaxBodyLen == 3          \* characters of a chapter's paragraph
MaxLineCount == 2        \* the configured line_count
MaxFontSize == 2         \* the initial font size
MaxGlyphWidth == 2       \* width of the glyph box, in pixels
MaxGlyphHeight == 2      \* height of the glyph box, in pixels
MaxBoxWidth == 3         \* text box width, in pixels
MaxLineSpace == 1        \* line spacing, in pixels

-----------------------------------------------------------------------------
(* Python primitives *)

Min(a, b) == IF a < b THEN a ELSE b
Max(a, b) == IF a > b THEN a ELSE b

\* math.ceil(n / 2) for an integer n >= 0
CeilHalf(n) == (n + 1) \div 2

\* Python's normalisation of a slice bound k for a sequence of length n
SliceBound(n, k) == IF k < 0 THEN Max(0, n + k) ELSE Min(k, n)

\* text[lo:hi]
Slice(text, lo, hi) ==
    LET a == SliceBound(Len(text), lo)
        b == SliceBound(Len(text), hi)
    IN  IF a < b THEN SubSeq(text, a + 1, b) ELSE <<>>

\* text[0:k]
SliceTo(text, k) == Slice(text, 0, k)

\* text[k:]
SliceFrom(text, k) == Slice(text, k, Len(text))

\* cut(text, length) for length >= 1; range() raises on a step of 0
RECURSIVE cut(_, _)
cut(text, length) ==
    IF text = <<>> THEN <<>>
    ELSE <<SliceTo(text, length)>> \o cut(SliceFrom(text, length), length)

\* cut(text, length) raises ValueError: range() arg 3 must not be zero
cutRaises(text, length) == text # <<>> /\ length = 0

RECURSIVE Flatten(_)
Flatten(seqs) ==
    IF seqs = <<>> THEN <<>> ELSE Head(seqs) \o Flatten(Tail(seqs))

\* The string of n distinct characters labelled tag
Text(tag, n) == [k \in 1..n |-> <<tag, k>>]

-----------------------------------------------------------------------------
(* adjust_font: spacing reconciliation and per-line capacities *)

\* lines 20-26: the members of the Enum TextType.  A member is not a str:
\* it never equals the string that is its value.
TextType ==
    [CHAPTER |-> "TextType.CHAPTER", CONTENT |-> "TextType.CONTENT",
     ANNOTATION |-> "TextType.ANNOTATION"]

Run(type, value) == [type |-> type, value |-> value]

Line(chapter_name, runs) == [chapter |-> chapter_name, line |-> runs]

\* lines 170-173: the pair (content_char_space, annotation_char_space)
AdjustSpace(cch, ach, ccs, acs) ==
    IF cch < 2 * ach THEN <<2 * ach - cch, acs>>
    ELSE IF cch > 2 * ach THEN <<ccs, (cch - 2 * ach) \div 2>>
    ELSE <<ccs, acs>>

\* lines 174-178
InnerMargin(text_box_height, cell) ==
    LET useless_height == text_box_height % cell
    IN  IF useless_height % 2 = 0
        THEN <<useless_height \div 2, useless_height \div 2>>
        ELSE <<useless_height \div 2, useless_height - useless_height \div 2>>

\* lines 170-198: the parameters adjust_font stores, from the measured
\* character heights, the configured spacings and the text box height
AdjustFontParams(chh, cch, ach, ccs0, acs0, tbh, lc) ==
    LET sp == AdjustSpace(cch, ach, ccs0, acs0)
        ccs == sp[1]
        acs == sp[2]
        im == InnerMargin(tbh, cch + ccs)
    IN  [chapter_char_height |-> chh,
         content_char_height |-> cch,
         annotation_char_height |-> ach,
         content_char_space |-> ccs,
         annotation_char_space |-> acs,
         text_box_height |-> tbh,
         inner_margin |-> im,
         max_chapter_chars_per_line |-> tbh \div chh,
         max_content_chars_per_line |-> (tbh - im[1] - im[2]) \div (cch + ccs),
         max_annotation_chars_per_line |->
             ((tbh - im[1] - im[2]) \div (ach + acs)) * 2,
         line_count |-> lc]

\* line 224 / 301
ValidHeight(P) == P.text_box_height - P.inner_margin[1] - P.inner_margin[2]

ContentCell(P) == P.content_char_height + P.content_char_space

AnnotationCell(P) == P.annotation_char_height + P.annotation_char_space

-----------------------------------------------------------------------------
(* split_paragraph *)

\* The state of the layout loop: the Lines so far, the height left in the
\* last one, and whether an exception was raised
LayoutState(ls, remain, raised) ==
    [lines |-> ls, remain_height |-> remain, raised |-> raised]

\* A slip: the run is put at the head of the last Line instead of its end
AppendRun_head(ls, run) ==
    [ls EXCEPT ![Len(ls)].line = <<run>> \o @]

\* lines[-1].get('line').append(run)
AppendRun(ls, run) ==
    [ls EXCEPT ![Len(ls)].line = Append(@, run)]

\* A slip: an off-by-one in the slice that keeps the rest of the sentence
SentenceRest_skip(sentence, k) == SliceFrom(sentence, k + 1)

\* line 243: sentence = sentence[remain_content_char_space:]
SentenceRest(sentence, k) == SliceFrom(sentence, k)

\* line 236
RemainContentCharSpace(P, remain) == remain \div ContentCell(P)

\* lines 235-247: the part of the sentence that goes on the partly filled
\* last Line.  Yields the lines, the remaining height and what is left of
\* the sentence (None is the empty sequence: cut() treats both alike).
CarrySentence(P, st, sentence) ==
    IF st.remain_height < ValidHeight(P)
    THEN IF RemainContentCharSpace(P, st.remain_height) = 0
         THEN [lines |-> st.lines, remain_height |-> ValidHeight(P),
               rest |-> sentence]
         ELSE IF RemainContentCharSpace(P, st.remain_height) < Len(sentence)
         THEN [lines |-> AppendRun(st.lines,
                   Run(TextType.CONTENT, SliceTo(sentence,
                       RemainContentCharSpace(P, st.remain_height)))),
               remain_height |-> ValidHeight(P),
               rest |-> SentenceRest(sentence,
                            RemainContentCharSpace(P, st.remain_height))]
         ELSE [lines |-> AppendRun(st.lines, Run(TextType.CONTENT, sentence)),
               remain_height |->
                   st.remain_height - Len(sentence) * ContentCell(P),
               rest |-> <<>>]
    ELSE [lines |-> st.lines, remain_height |-> st.remain_height,
          rest |-> sentence]

\* lines 250-253: the height left after a chunk opened a new Line
AfterContentChunk(P, remain, part) ==
    IF Len(part) < P.max_content_chars_per_line
    THEN remain - Len(part) * ContentCell(P)
    ELSE ValidHeight(P)

\* lines 248-253: one new Line per chunk of the sentence
RECURSIVE ChunkSentence(_, _, _, _)
ChunkSentence(P, chapter_name, st, parts) ==
    IF parts = <<>> THEN st
    ELSE ChunkSentence(P, chapter_name,
             LayoutState(
                 Append(st.lines,
                     Line(chapter_name, <<Run(TextType.CONTENT, Head(parts))>>)),
                 AfterContentChunk(P, st.remain_height, Head(parts)),
                 FALSE),
             Tail(parts))

\* lines 267-270: the height an annotation appended whole takes
AppendedAnnotationHeight(P, annotation) ==
    CeilHalf(Len(annotation)) * AnnotationCell(P)
    + (IF CeilHalf(Len(annotation)) % 2 # 0 THEN AnnotationCell(P) ELSE 0)

\* lines 256-257
RemainAnnotationCharSpace(P, remain) == (remain \div AnnotationCell(P)) * 2

\* lines 254-271
CarryAnnotation(P, st, annotation) ==
    IF annotation # <<>> /\ st.remain_height < ValidHeight(P)
    THEN IF RemainAnnotationCharSpace(P, st.remain_height) = 0
         THEN [lines |-> st.lines, remain_height |-> ValidHeight(P),
               rest |-> annotation]
         ELSE IF RemainAnnotationCharSpace(P, st.remain_height) < Len(annotation)
         THEN [lines |-> AppendRun(st.lines,
                   Run(TextType.ANNOTATION, SliceTo(annotation,
                       RemainAnnotationCharSpace(P, st.remain_height)))),
               remain_height |-> ValidHeight(P),
               rest |-> SliceFrom(annotation,
                            RemainAnnotationCharSpace(P, st.remain_height))]
         ELSE [lines |-> AppendRun(st.lines,
                   Run(TextType.ANNOTATION, annotation)),
               remain_height |->
                   st.remain_height - AppendedAnnotationHeight(P, annotation),
               rest |-> <<>>]
    ELSE [lines |-> st.lines, remain_height |-> st.remain_height,
          rest |-> annotation]

\* lines 274-278: the height left after a chunk opened a new Line
AfterAnnotationChunk(P, remain, part) ==
    IF Len(part) < P.max_annotation_chars_per_line - 1
    THEN remain - CeilHalf(Len(part)) * AnnotationCell(P)
    ELSE ValidHeight(P)

\* lines 272-278: one new Line per chunk of the annotation
RECURSIVE ChunkAnnotation(_, _, _, _)
ChunkAnnotation(P, chapter_name, st, parts) ==
    IF parts = <<>> THEN st
    ELSE ChunkAnnotation(P, chapter_name,
             LayoutState(
                 Append(st.lines,
                     Line(chapter_name,
                          <<Run(TextType.ANNOTATION, Head(parts))>>)),
                 AfterAnnotationChunk(P, st.remain_height, Head(parts)),
                 FALSE),
             Tail(parts))

\* lines 248-253 after the carry c; cut() raises ValueError on a length of 0
SentenceChunks(P, chapter_name, c) ==
    IF cutRaises(c.rest, P.max_content_chars_per_line)
    THEN LayoutState(c.lines, c.remain_height, TRUE)
    ELSE ChunkSentence(P, chapter_name,
             LayoutState(c.lines, c.remain_height, FALSE),
             cut(c.rest, P.max_content_chars_per_line))

\* lines 272-278 after the carry c
AnnotationChunks(P, chapter_name, c) ==
    IF cutRaises(c.rest, P.max_annotation_chars_per_line)
    THEN LayoutState(c.lines, c.remain_height, TRUE)
    ELSE ChunkAnnotation(P, chapter_name,
             LayoutState(c.lines, c.remain_height, FALSE),
             cut(c.rest, P.max_annotation_chars_per_line))

\* lines 231-253: one sentence
LayoutSentenceStep(P, chapter_name, st, sentence) ==
    SentenceChunks(P, chapter_name, CarrySentence(P, st, sentence))

\* lines 254-278: one annotation (the empty sequence when there is none)
LayoutAnnotationStep(P, chapter_name, st, annotation) ==
    AnnotationChunks(P, chapter_name, CarryAnnotation(P, st, annotation))

\* lines 232-234: annotation k, None (empty) past the end of the list
AnnotationAt(anns, k) == IF k <= Len(anns) THEN anns[k] ELSE <<>>

\* lines 254-278, unless the sentence raised
AnnotationAfter(P, chapter_name, st, annotation) ==
    IF st.raised THEN st
    ELSE LayoutAnnotationStep(P, chapter_name, st, annotation)

\* lines 230-279: split_paragraph from sentence k on
RECURSIVE SplitParagraphFrom(_, _, _, _, _)
SplitParagraphFrom(P, chapter_name, paragraph, st, k) ==
    IF st.raised \/ k > Len(paragraph.texts) THEN st
    ELSE SplitParagraphFrom(P, chapter_name, paragraph,
             AnnotationAfter(P, chapter_name,
                 LayoutSentenceStep(P, chapter_name, st, paragraph.texts[k]),
                 AnnotationAt(paragraph.annotations, k)),
             k + 1)

\* lines 203-279
split_paragraph(chapter_name, paragraph, P) ==
    SplitParagraphFrom(P, chapter_name, paragraph,
        LayoutState(<<>>, ValidHeight(P), FALSE), 1)

-----------------------------------------------------------------------------
(* split_text *)

\* lines 92-104
calculate_remain_char_space(remain, height, space, is_annotation) ==
    IF is_annotation
    THEN (remain \div (height + space)) * 2
    ELSE remain \div (height + space)

\* lines 123-130: the height one item of a Line uses.  The match compares
\* item.get('type') with the strings 'chapter', 'content' and 'annotation'.
UsedHeight(item, P) ==
    CASE item.type = "chapter" ->
             P.chapter_char_height * Len(item.value)
      [] item.type = "content" ->
             ContentCell(P) * Len(item.value)
      [] item.type = "annotation" ->
             AnnotationCell(P) * CeilHalf(Len(item.value))
      [] OTHER -> 0

RECURSIVE SumUsedHeight(_, _)
SumUsedHeight(line, P) ==
    IF line = <<>> THEN 0
    ELSE UsedHeight(Head(line), P) + SumUsedHeight(Tail(line), P)

\* lines 107-131
calculate_remain_height(line, valid_height, P) ==
    valid_height - SumUsedHeight(line, P)

\* The state of the chapter loop: text_lines, and whether an exception was
\* raised
TextState(tl, raised) == [lines |-> tl, raised |-> raised]

\* One new Line per section, each a single run of the given type
LinesOf(chapter_name, type, secs) ==
    [k \in 1..Len(secs) |-> Line(chapter_name, <<Run(type, secs[k])>>)]

\* lines 308-310: the chapter name, cut into Lines
TitleLines(P, tl, chapter) ==
    IF cutRaises(chapter.chapter, P.max_chapter_chars_per_line)
    THEN TextState(tl, TRUE)
    ELSE TextState(
             tl \o LinesOf(chapter.chapter, TextType.CHAPTER,
                       cut(chapter.chapter, P.max_chapter_chars_per_line)),
             FALSE)

\* lines 312-319: the annotation characters that go under the title
TitleAnnotationSpace(P, tl) ==
    calculate_remain_char_space(
        calculate_remain_height(tl[Len(tl)].line, ValidHeight(P), P),
        P.annotation_char_height, P.annotation_char_space, TRUE)

\* lines 323-329: the annotation does not fit under the title
TitleAnnotationOverflow(P, tl, chapter, space) ==
    IF cutRaises(SliceFrom(chapter.annotation, space),
                 P.max_annotation_chars_per_line)
    THEN TextState(
             AppendRun(tl, Run(TextType.ANNOTATION,
                               SliceTo(chapter.annotation, space))),
             TRUE)
    ELSE TextState(
             AppendRun(tl, Run(TextType.ANNOTATION,
                               SliceTo(chapter.annotation, space)))
             \o LinesOf(chapter.chapter, TextType.ANNOTATION,
                    cut(SliceFrom(chapter.annotation, space),
                        P.max_annotation_chars_per_line)),
             FALSE)

\* lines 320-329
TitleAnnotationFit(P, tl, chapter, space) ==
    IF Len(chapter.annotation) <= space
    THEN TextState(
             AppendRun(tl, Run(TextType.ANNOTATION, chapter.annotation)),
             FALSE)
    ELSE TitleAnnotationOverflow(P, tl, chapter, space)

\* lines 311-329: the chapter annotation; text_lines[-1] raises IndexError
\* on an empty list
TitleAnnotation(P, t, chapter) ==
    IF t.raised \/ chapter.annotation = <<>> THEN t
    ELSE IF t.lines = <<>> THEN TextState(t.lines, TRUE)
    ELSE TitleAnnotationFit(P, t.lines, chapter,
             TitleAnnotationSpace(P, t.lines))

\* lines 332-333: text_lines.extend(lines)
ExtendLines(t, r) == TextState(t.lines \o r.lines, r.raised)

\* lines 330-333: the chapter's paragraphs, from paragraph k on
RECURSIVE ChapterParagraphs(_, _, _, _)
ChapterParagraphs(P, t, chapter, k) ==
    IF t.raised \/ k > Len(chapter.content) THEN t
    ELSE ChapterParagraphs(P,
             ExtendLines(t,
                 split_paragraph(chapter.chapter, chapter.content[k], P)),
             chapter, k + 1)

\* A slip: one padding Line too few
Padding_off(len, line_count) == line_count - (len % line_count) - 1

\* line 336: the number of empty Lines appended after a chapter
Padding(len, line_count) == line_count - (len % line_count)

\* A slip: the chapter is not padded
PadChapter_none(P, t, chapter) == t

\* lines 335-336: pad to a multiple of line_count; % raises
\* ZeroDivisionError when line_count is 0
PadChapter(P, t, chapter) ==
    IF t.raised THEN t
    ELSE IF P.line_count = 0 THEN TextState(t.lines, TRUE)
    ELSE IF Len(t.lines) % P.line_count # 0
    THEN TextState(
             t.lines \o [k \in 1..Padding(Len(t.lines), P.line_count) |->
                            Line(chapter.chapter, <<>>)],
             FALSE)
    ELSE t

\* lines 304-336: one iteration of the chapter loop
SplitChapter(P, tl, chapter) ==
    PadChapter(P,
        ChapterParagraphs(P,
            TitleAnnotation(P, TitleLines(P, tl, chapter), chapter),
            chapter, 1),
        chapter)

-----------------------------------------------------------------------------
(* calculate_font_size: the largest size whose columns fit the text box *)

\* lines 409-419: the width line_count columns of characters char_width
\* wide take
RequiredWidth(a, w) ==
    IF a.is_annotation
    THEN a.line_count * (2 * w + a.annotation_line_space + a.line_space)
             - a.line_space
    ELSE a.line_count * (w + a.line_space) - a.line_space

\* A slip: a size whose columns fill the box exactly is passed over
TooWide_strict(a, w) == RequiredWidth(a, w) >= a.text_box_width

\* lines 410-411, 416: the test that makes the loop go on to the next size
TooWide(a, w) == RequiredWidth(a, w) > a.text_box_width

\* The calls of calculate_font_size
FontArgs ==
    [font_size : 0..MaxFontSize,
     text_box_width : 0..MaxBoxWidth,
     line_count : 1..MaxLineCount,
     line_space : 0..MaxLineSpace,
     is_annotation : BOOLEAN,
     annotation_line_space : 0..MaxLineSpace]

\* font.getbbox(...)[2] and [3] for a font loaded at some size
GlyphBoxes == (1..MaxGlyphWidth) \X (1..MaxGlyphHeight)

\* calculate_font_size is not running
FontIdle ==
    /\ font = <<>>
    /\ args = [font_size |-> 0]
    /\ range_next = 0
    /\ size = 0
    /\ char_width = 0
    /\ char_height = 0
    /\ fpc = "idle"

-----------------------------------------------------------------------------
(* split_paragraph as a process: one step per sentence, one per annotation *)

ParaChapterName == Text("t", 1)

\* The parameter dictionaries adjust_font can produce
ParamSpace ==
    {AdjustFontParams(chh, cch, ach, ccs0, acs0, tbh, 1) :
        chh \in {1}, cch \in 1..MaxCharHeight, ach \in 1..MaxCharHeight,
        ccs0 \in 0..MaxCharSpace, acs0 \in 0..MaxCharSpace,
        tbh \in 1..MaxBoxHeight}

\* gen_images is not running
BookIdle ==
    /\ texts = <<>>
    /\ text_lines = <<>>
    /\ chapter_starts = <<>>
    /\ gpc = "idle"
    /\ tasks = <<>>
    /\ page = 1
    /\ status = <<>>
    /\ next_get = 1
    /\ logged = <<>>
    /\ saved = {}

\* The paragraph is revealed as the loop reads it: sentences and annotations
\* hold the items read so far, sentences[0:i] and annotations[0:i] (an absent
\* annotation, None or past the end of the list, is the empty sequence).
ParaInit ==
    /\ params \in ParamSpace
    /\ sentences = <<>>
    /\ annotations = <<>>
    /\ lines = <<>>
    /\ remain_height = ValidHeight(params)
    /\ i = 1
    /\ pc = "sentence"
    /\ BookIdle
    /\ FontIdle

\* lines 230-253, for a next sentence of n characters
LayoutSentence ==
    /\ pc = "sentence"
    /\ i <= MaxItems
    /\ \E n \in 0..MaxSentenceLen :
         LET sentence == Text(<<"s", i>>, n)
             r == LayoutSentenceStep(params, ParaChapterName,
                      LayoutState(lines, remain_height, FALSE), sentence)
         IN  /\ sentences' = Append(sentences, sentence)
             /\ lines' = r.lines
             /\ remain_height' = r.remain_height
             /\ pc' = IF r.raised THEN "raised" ELSE "annotation"
    /\ UNCHANGED <<fontVars, params, annotations, i, bookVars, gpc, poolVars>>

\* lines 254-278, for an annotation of n characters (0: none)
LayoutAnnotation ==
    /\ pc = "annotation"
    /\ \E n \in 0..MaxAnnotationLen :
         LET annotation == AnnotationAt(<<Text(<<"a", i>>, n)>>, 1)
             r == LayoutAnnotationStep(params, ParaChapterName,
                      LayoutState(lines, remain_height, FALSE), annotation)
         IN  /\ annotations' = Append(annotations, annotation)
             /\ lines' = r.lines
             /\ remain_height' = r.remain_height
             /\ pc' = IF r.raised THEN "raised" ELSE "sentence"
             /\ i' = IF r.raised THEN i ELSE i + 1
    /\ UNCHANGED <<fontVars, params, sentences, bookVars, gpc, poolVars>>

\* line 230 exhausted, line 279: there is no further sentence.  The
\* annotations list may hold one more annotation, of n characters, than
\* there are sentences (0: it does not); the loop never reads it.
ParagraphReturn ==
    /\ pc = "sentence"
    /\ pc' = "done"
    /\ \E n \in 0..MaxAnnotationLen :
         annotations' = IF n = 0 THEN annotations
                        ELSE Append(annotations, Text(<<"a", i>>, n))
    /\ UNCHANGED <<fontVars, params, sentences, lines, remain_height, i,
                   bookVars, gpc, poolVars>>

ParaNext == LayoutSentence \/ LayoutAnnotation \/ ParagraphReturn

SpecPara == ParaInit /\ [][ParaNext]_vars

-----------------------------------------------------------------------------
(* gen_images: split_text, then one job per page on a pool of workers *)

\* line 625: Pool(processes=10)
Processes == 10

\* split_paragraph is not running
ParaIdle ==
    /\ sentences = <<>>
    /\ annotations = <<>>
    /\ lines = <<>>
    /\ remain_height = 0
    /\ i = 1
    /\ pc = "idle"

\* The parameters of a book whose chapter and content fonts measure
\* MaxCharHeight pixels and whose annotation font measures 1 pixel, in a
\* text box two content characters high
BookParams(line_count) ==
    AdjustFontParams(MaxCharHeight, MaxCharHeight, 1, 0, 0,
                     2 * MaxCharHeight, line_count)

\* Chapter c of a book, from the lengths of its name, of its annotation and
\* of the one sentence of its one paragraph (0: the chapter has no paragraph)
ChapterOf(c, shape) ==
    [chapter |-> Text(<<"t", c>>, shape[1]),
     annotation |-> Text(<<"n", c>>, shape[2]),
     content |-> IF shape[3] = 0 THEN <<>>
                 ELSE <<[texts |-> <<Text(<<"s", c>>, shape[3])>>,
                         annotations |-> <<>>]>>]

ChapterShapes ==
    (0..MaxTitleLen) \X (0..MaxTitleAnnotationLen) \X (0..MaxBodyLen)

PoolChapterShapes == {1} \X {0} \X (0..MaxBodyLen)

\* math.ceil(a / b)
CeilDiv(a, b) == (a + b - 1) \div b

\* line 627: the number of pages
PageCount == CeilDiv(Len(text_lines), params.line_count * 2)

\* A slip: the slice starts at i * line_count
PagePart_stride(tl, k, line_count) ==
    Slice(tl, k * line_count, line_count * 2 * (k + 1))

\* line 628: text_lines[i * line_count * 2: line_count * 2 * (i + 1)]
PagePart(tl, k, line_count) ==
    Slice(tl, k * line_count * 2, line_count * 2 * (k + 1))

\* A slip: the page counter is not advanced
NextPage_same(n) == n

\* line 631: page += 1
NextPage(n) == n + 1

\* A slip: the result is taken without waiting for the job
Ready_nowait(st) == TRUE

\* line 635: task.get() returns or raises once the job has finished
Ready(st) == st \in {"ok", "failed"}

\* A slip: the first failure ends the collecting loop
NextTask_abort(k, n, failed) == IF failed THEN n + 1 ELSE k + 1

\* lines 633-637: the job the loop waits for after job k, of n
NextTask(k, n, failed) == k + 1

PoolFresh ==
    /\ tasks = <<>>
    /\ page = 1
    /\ status = <<>>
    /\ next_get = 1
    /\ logged = <<>>
    /\ saved = {}

\* gen_images is entered with the parameters of adjust_font; the book is
\* revealed chapter by chapter as split_text reads it
TextInit ==
    /\ \E lc \in 0..MaxLineCount : params = BookParams(lc)
    /\ ParaIdle
    /\ texts = <<>>
    /\ text_lines = <<>>
    /\ chapter_starts = <<>>
    /\ gpc = "split_text"
    /\ PoolFresh
    /\ FontIdle

PoolInit ==
    /\ \E lc \in 1..MaxLineCount : params = BookParams(lc)
    /\ ParaIdle
    /\ texts = <<>>
    /\ text_lines = <<>>
    /\ chapter_starts = <<>>
    /\ gpc = "split_text"
    /\ PoolFresh
    /\ FontIdle

\* lines 304-336: one iteration of the chapter loop, for a next chapter of
\* one of the given shapes
SplitChapterStep(shapes) ==
    /\ gpc = "split_text"
    /\ Len(texts) < MaxChapters
    /\ \E shape \in shapes :
         LET chapter == ChapterOf(Len(texts) + 1, shape)
             r == SplitChapter(params, text_lines, chapter)
         IN  /\ texts' = Append(texts, chapter)
             /\ chapter_starts' = Append(chapter_starts, Len(text_lines))
             /\ text_lines' = r.lines
             /\ gpc' = IF r.raised THEN "raised" ELSE "split_text"
    /\ UNCHANGED <<fontVars, params, paraVars, poolVars>>

SplitTextChapter == SplitChapterStep(ChapterShapes)

SplitPoolChapter == SplitChapterStep(PoolChapterShapes)

\* line 338, lines 620-626: there is no further chapter; the pool is created
SplitTextReturn ==
    /\ gpc = "split_text"
    /\ gpc' = "submit"
    /\ UNCHANGED <<fontVars, params, paraVars, bookVars, poolVars>>

\* lines 627-631: one iteration of the submitting loop
Submit ==
    /\ gpc = "submit"
    /\ Len(tasks) < PageCount
    /\ tasks' = Append(tasks,
           [part |-> PagePart(text_lines, Len(tasks), params.line_count),
            page |-> page])
    /\ status' = Append(status, "queued")
    /\ page' = NextPage(page)
    /\ UNCHANGED <<fontVars, params, paraVars, bookVars, gpc, next_get, logged, saved>>

\* line 627 exhausted
SubmitDone ==
    /\ gpc = "submit"
    /\ Len(tasks) >= PageCount
    /\ gpc' = "collect"
    /\ UNCHANGED <<fontVars, params, paraVars, bookVars, poolVars>>

\* An idle worker of the pool takes a queued job
StartJob ==
    /\ gpc \in {"submit", "collect"}
    /\ \E k \in 1..Len(status) :
         /\ status[k] = "queued"
         /\ Cardinality({j \in 1..Len(status) : status[j] = "running"})
                < Processes
         /\ status' = [status EXCEPT ![k] = "running"]
    /\ UNCHANGED <<fontVars, params, paraVars, bookVars, gpc, tasks, page, next_get,
                   logged, saved>>

\* lines 522-603: gen_image_with_fixed_size saves the page's image
FinishJob ==
    /\ gpc \in {"submit", "collect"}
    /\ \E k \in 1..Len(status) :
         /\ status[k] = "running"
         /\ status' = [status EXCEPT ![k] = "ok"]
         /\ saved' = saved \cup {tasks[k].page}
    /\ UNCHANGED <<fontVars, params, paraVars, bookVars, gpc, tasks, page, next_get,
                   logged>>

\* lines 522-603: gen_image_with_fixed_size raises
FailJob ==
    /\ gpc \in {"submit", "collect"}
    /\ \E k \in 1..Len(status) :
         /\ status[k] = "running"
         /\ status' = [status EXCEPT ![k] = "failed"]
    /\ UNCHANGED <<fontVars, params, paraVars, bookVars, gpc, tasks, page, next_get,
                   logged, saved>>

\* lines 633-637: task.get() of the next job, its exception logged
GetResult ==
    /\ gpc = "collect"
    /\ next_get <= Len(tasks)
    /\ Ready(status[next_get])
    /\ logged' = IF status[next_get] = "failed"
                 THEN Append(logged, tasks[next_get].page)
                 ELSE logged
    /\ next_get' = NextTask(next_get, Len(tasks), status[next_get] = "failed")
    /\ UNCHANGED <<fontVars, params, paraVars, bookVars, gpc, tasks, page, status,
                   saved>>

\* line 633 exhausted; leaving the with block terminates the pool, which
\* kills every job that has not finished
Return ==
    /\ gpc = "collect"
    /\ next_get > Len(tasks)
    /\ status' = [k \in 1..Len(status) |->
                     IF status[k] \in {"queued", "running"}
                     THEN "terminated" ELSE status[k]]
    /\ gpc' = "returned"
    /\ UNCHANGED <<fontVars, params, paraVars, bookVars, tasks, page, next_get, logged,
                   saved>>

TextNext == SplitTextChapter \/ SplitTextReturn

SpecText == TextInit /\ [][TextNext]_vars

PoolNext ==
    \/ SplitPoolChapter
    \/ SplitTextReturn
    \/ Submit
    \/ SubmitDone
    \/ StartJob
    \/ FinishJob
    \/ FailJob
    \/ GetResult
    \/ Return

SpecPool == PoolInit /\ [][PoolNext]_vars

\* The main process keeps running, an idle worker takes a queued job, and
\* every started job finishes
FairSpecPool ==
    /\ SpecPool
    /\ WF_vars(SplitTextReturn \/ Submit \/ SubmitDone \/ GetResult \/ Return)
    /\ WF_vars(StartJob)
    /\ WF_vars(FinishJob \/ FailJob)

-----------------------------------------------------------------------------
(* calculate_font_size as a process: one step per size tried *)

\* lines 403-405.  The font file is read as the loop loads it: font holds
\* the glyph box at each size loaded so far.
FontInit ==
    /\ args \in FontArgs
    /\ font = <<>>
    /\ range_next = args.font_size
    /\ size = args.font_size
    /\ char_width = 0
    /\ char_height = 0
    /\ fpc = "for"
    /\ params = [line_count |-> args.line_count]
    /\ ParaIdle
    /\ BookIdle

\* lines 406-419: one iteration, the font at this size measuring box
TrySize ==
    /\ fpc = "for"
    /\ range_next >= 1
    /\ \E box \in GlyphBoxes :
         /\ font' = [s \in DOMAIN font \cup {range_next} |->
                        IF s = range_next THEN box ELSE font[s]]
         /\ size' = range_next
         /\ char_width' = box[1]
         /\ char_height' = box[2]
         /\ range_next' = range_next - 1
         /\ fpc' = IF TooWide(args, box[1]) THEN "for" ELSE "returned"
    /\ UNCHANGED <<args, params, paraVars, bookVars, gpc, poolVars>>

\* line 406 exhausted, line 421
FontReturn ==
    /\ fpc = "for"
    /\ range_next < 1
    /\ fpc' = "returned"
    /\ UNCHANGED <<font, args, range_next, size, char_width, char_height,
                   params, paraVars, bookVars, gpc, poolVars>>

FontNext == TrySize \/ FontReturn

SpecFont == FontInit /\ [][FontNext]_vars

-----------------------------------------------------------------------------
(* adjust_font as a process: the configuration, then the adjusted parameters *)

\* lines 143-150: what adjust_font reads of the configuration
ConfigSpace ==
    [content_char_space : 0..MaxCharSpace,
     annotation_char_space : 0..MaxCharSpace,
     text_box_height : 1..MaxBoxHeight,
     line_count : 0..MaxLineCount]

\* adjust_font has stored its results in the parameter dictionary
Adjusted(P) == "inner_margin" \in DOMAIN P

AdjustInit ==
    /\ params \in ConfigSpace
    /\ ParaIdle
    /\ BookIdle
    /\ FontIdle

\* lines 152-200, the three fonts measuring chh, cch and ach pixels high at
\* the sizes calculate_font_size returned
AdjustFont ==
    /\ ~Adjusted(params)
    /\ \E chh, cch, ach \in 1..MaxCharHeight :
         params' = AdjustFontParams(chh, cch, ach,
                       params.content_char_space,
                       params.annotation_char_space,
                       params.text_box_height, params.line_count)
    /\ UNCHANGED <<fontVars, paraVars, bookVars, gpc, poolVars>>

AdjustNext == AdjustFont

SpecAdjust == AdjustInit /\ [][AdjustNext]_vars

-----------------------------------------------------------------------------
(* gen_image_with_fixed_size: the vertical position of the pen in a column *)

\* line 543: margin[0] + border + 3, for a page without margin and border
FrameTop == 3

\* The pen: its y, the end of the last annotation drawn in the column, and
\* the char_height and char_space of the last typed run
Pen(y, y_anno_end, height, space) ==
    [y |-> y, y_anno_end |-> y_anno_end, char_height |-> height,
     char_space |-> space]

\* lines 543-550: the pen at the top of a column
PenAtTop(P) == Pen(FrameTop + P.inner_margin[1], 0, 0, 0)

\* lines 557-579: the pen after the match on the run's type
TypedPen(P, pen, run) ==
    CASE run.type = TextType.CHAPTER ->
             Pen(FrameTop, pen.y_anno_end, P.chapter_char_height,
                 pen.char_space)
      [] run.type = TextType.CONTENT ->
             Pen(pen.y, pen.y_anno_end, P.content_char_height,
                 P.content_char_space)
      [] run.type = TextType.ANNOTATION ->
             Pen(pen.y, pen.y_anno_end, P.annotation_char_height,
                 P.annotation_char_space)
      [] OTHER -> pen

\* lines 581-596 for an ANNOTATION run of n characters: the first
\* ceil(n/2) characters go down one sub-column, whose end is y_anno_end,
\* the pen goes there after the run and one row further when ceil(n/2) is
\* odd; a run without characters leaves y_anno_end as it was
AnnotationDrawn(pen, n) ==
    LET cell == pen.char_height + pen.char_space
        end == IF n = 0 THEN pen.y_anno_end
               ELSE pen.y + CeilHalf(n) * cell
    IN  Pen(IF CeilHalf(n) % 2 # 0 THEN end + cell ELSE end,
            end, pen.char_height, pen.char_space)

\* lines 581-592 for a CHAPTER or CONTENT run of n characters
CharsDrawn(pen, n) ==
    Pen(pen.y + n * (pen.char_height + pen.char_space), pen.y_anno_end,
        pen.char_height, pen.char_space)

\* lines 551-596: the pen after one run
DrawRun(P, pen, run) ==
    IF run.type = TextType.ANNOTATION
    THEN AnnotationDrawn(TypedPen(P, pen, run), Len(run.value))
    ELSE CharsDrawn(TypedPen(P, pen, run), Len(run.value))

\* lines 543-596: the pen after the runs of a Line
RECURSIVE DrawRuns(_, _, _)
DrawRuns(P, pen, runs) ==
    IF runs = <<>> THEN pen
    ELSE DrawRuns(P, DrawRun(P, pen, Head(runs)), Tail(runs))

\* The distance the pen has gone down a column after drawing a Line
DrawnHeight(P, runs) == DrawRuns(P, PenAtTop(P), runs).y - PenAtTop(P).y

-----------------------------------------------------------------------------
(* Reading the output of split_paragraph *)

\* All runs of a Line sequence, in Line order and in run order within a Line
RunsOf(ls) == Flatten([k \in 1..Len(ls) |-> ls[k].line])

\* The values of the runs of one type, concatenated in order
TextOfType(ls, type) ==
    LET rs == SelectSeq(RunsOf(ls), LAMBDA r : r.type = type)
    IN  Flatten([k \in 1..Len(rs) |-> rs[k].value])

\* The run holds a character of the text labelled tag
Holds(run, tag) == \E k \in 1..Len(run.value) : run.value[k][1] = tag

\* C1: when split_paragraph returns, the CONTENT runs of its Lines, read in
\* Line order and in run order within a Line, spell the paragraph's sentences
\* in their original order: no character is added, dropped or reordered.
C1_ContentPreserved ==
    pc = "done" => TextOfType(lines, TextType.CONTENT) = Flatten(sentences)

\* C1 witness: a returned paragraph whose second sentence was split, its
\* head carried onto a Line that already holds an annotation and its rest
\* opening the next Line.
C1_Witness ==
    /\ pc = "done"
    /\ params.max_content_chars_per_line >= 1
    /\ \E k \in 2..Len(lines) :
         /\ Holds(lines[k].line[1], <<"s", 2>>)
         /\ \E a, b \in 1..Len(lines[k - 1].line) :
              /\ a < b
              /\ lines[k - 1].line[a].type = TextType.ANNOTATION
              /\ lines[k - 1].line[a].value # <<>>
              /\ Holds(lines[k - 1].line[b], <<"s", 2>>)

\* C4: after every sentence and after every annotation, remain_height is at
\* least 0 and at most the full column height.
C4_RemainHeightInRange ==
    pc \in {"sentence", "annotation", "done"} =>
        /\ remain_height >= 0
        /\ remain_height <= params.text_box_height

\* C5: no ANNOTATION run holding text of annotation k comes earlier, in Line
\* order and run order, than a CONTENT run holding text of sentence k.
C5_AnnotationAfterSentence ==
    LET rs == RunsOf(lines)
    IN  \A p, q \in 1..Len(rs) : \A k \in 1..MaxItems :
            (/\ rs[p].type = TextType.ANNOTATION
             /\ Holds(rs[p], <<"a", k>>)
             /\ rs[q].type = TextType.CONTENT
             /\ Holds(rs[q], <<"s", k>>)) => q < p

\* C5 witness: a returned paragraph whose first annotation starts on the
\* Line that holds the end of its sentence and continues on the next Line.
C5_Witness ==
    /\ pc = "done"
    /\ \E k \in 1..Len(lines) - 1 : \E a, b \in 1..Len(lines[k].line) :
         /\ a < b
         /\ lines[k].line[a].type = TextType.CONTENT
         /\ Holds(lines[k].line[a], <<"s", 1>>)
         /\ lines[k].line[b].type = TextType.ANNOTATION
         /\ Holds(lines[k].line[b], <<"a", 1>>)
         /\ Holds(lines[k + 1].line[1], <<"a", 1>>)

-----------------------------------------------------------------------------
(* Reading the pages and the pool of gen_images *)

\* The jobs with the given status
JobsWith(st) == {k \in 1..Len(status) : status[k] = st}

\* C2 as stated: every page handed to a render job holds exactly
\* 2*line_count Lines, the last page included.
C2_PageShape ==
    \A k \in 1..Len(tasks) : Len(tasks[k].part) = 2 * params.line_count

\* C2 amended: every page handed to a render job holds exactly 2*line_count
\* Lines, except the last page of the book, which holds either line_count
\* or 2*line_count Lines.
C2_PageShapeButLast ==
    \A k \in 1..Len(tasks) :
        \/ Len(tasks[k].part) = 2 * params.line_count
        \/ /\ k = PageCount
           /\ Len(tasks[k].part) = params.line_count

\* C2 witness: every page was submitted, the first is full and the last
\* holds line_count Lines only.
C2_Witness ==
    /\ gpc = "collect"
    /\ Len(tasks) >= 2
    /\ Len(tasks[1].part) = 2 * params.line_count
    /\ Len(tasks[Len(tasks)].part) = params.line_count

\* C3: in the Line sequence split_text returns, every chapter starts at an
\* index that is a multiple of line_count and the sequence ends at one, so
\* each chapter's number of Lines is a multiple of line_count.
C3_PaddingMultiple ==
    (gpc = "submit" /\ params.line_count >= 1) =>
        /\ Len(text_lines) % params.line_count = 0
        /\ \A c \in 1..Len(chapter_starts) :
               chapter_starts[c] % params.line_count = 0

\* C3 witness: split_text returned a book of two chapters laid out two
\* Lines to the half page, the first chapter one title Line and one padding
\* Line, the second chapter three Lines and one padding Line.
C3_Witness ==
    /\ gpc = "submit"
    /\ params.line_count = 2
    /\ Len(texts) = 2
    /\ chapter_starts = <<0, 2>>
    /\ text_lines[1].line # <<>>
    /\ text_lines[2].line = <<>>
    /\ Len(text_lines) = 6
    /\ text_lines[5].line # <<>>
    /\ text_lines[6].line = <<>>

\* C6: when gen_images has returned and exactly one job failed, every other
\* job ran to completion and saved its page, and exactly one failure was
\* logged, that of the failed job.
C6_FailureIsolated ==
    (gpc = "returned" /\ Cardinality(JobsWith("failed")) = 1) =>
        /\ \A k \in 1..Len(tasks) :
               status[k] # "failed" =>
                   (status[k] = "ok" /\ tasks[k].page \in saved)
        /\ Len(logged) = 1
        /\ \E k \in JobsWith("failed") : logged[1] = tasks[k].page

\* C6 witness: gen_images returned, the first job failed and two later
\* jobs saved their pages.
C6_Witness ==
    /\ gpc = "returned"
    /\ Len(tasks) >= 3
    /\ status[1] = "failed"
    /\ \A k \in 2..Len(tasks) : status[k] = "ok"
    /\ logged = <<1>>

\* C7: whenever gen_images has returned (the pool torn down), every
\* submitted job has finished, with success or with failure; and, every
\* started job finishing eventually, gen_images eventually returns.
C7_JoinsBeforeReturn ==
    /\ [](gpc = "returned" =>
            \A k \in 1..Len(tasks) : status[k] \in {"ok", "failed"})
    /\ (gpc = "submit") ~> (gpc = "returned")

\* C7 witness: gen_images returned after two or more jobs, the last one
\* failed, all others succeeded.
C7_Witness ==
    /\ gpc = "returned"
    /\ Len(tasks) >= 2
    /\ status[Len(tasks)] = "failed"
    /\ \A k \in 1..Len(tasks) - 1 : status[k] = "ok"

\* C10: the jobs are numbered 1, 2, ..., P in the order of submission, job k
\* holds Lines (k-1)*2*line_count up to k*2*line_count of the flat Line
\* sequence in their order, and once all are submitted P is the number of
\* pages: whatever the workers have started or finished.
C10_PagesInOrder ==
    /\ \A k \in 1..Len(tasks) :
           /\ tasks[k].page = k
           /\ tasks[k].part =
                  SubSeq(text_lines, (k - 1) * 2 * params.line_count + 1,
                         Min(k * 2 * params.line_count, Len(text_lines)))
    /\ gpc \in {"collect", "returned"} =>
           /\ Len(tasks) = PageCount
           /\ Flatten([k \in 1..Len(tasks) |-> tasks[k].part]) = text_lines

\* C10 witness: the second job has saved its page while the first one is
\* still queued and a third is yet to be submitted.
C10_Witness ==
    /\ gpc = "submit"
    /\ Len(tasks) = 2
    /\ PageCount >= 3
    /\ status = <<"queued", "ok">>
    /\ saved = {2}

-----------------------------------------------------------------------------
(* Reading the result of calculate_font_size *)

\* The width constraint at a size the font was loaded at: column_count
\* columns, each w wide, a gap between neighbours, fit the box; w is the
\* character width, or two character widths and the dual gap for annotations
Fits(s) ==
    LET w == IF args.is_annotation
             THEN 2 * font[s][1] + args.annotation_line_space
             ELSE font[s][1]
    IN  args.line_count * (w + args.line_space) - args.line_space
            <= args.text_box_width

\* C8: calculate_font_size does not return a size when no size in
\* 1..initial_size satisfies the width constraint (it fails instead): if it
\* has returned, some size it tried fits.
C8_InfeasibleFails ==
    (fpc = "returned" /\ args.font_size >= 1) =>
        \E s \in DOMAIN font : Fits(s)

\* C9: when some size in 1..initial_size fits, calculate_font_size returns
\* the largest fitting size, none above it up to initial_size fitting,
\* with the character width and height measured at that size.
C9_LargestFittingSize ==
    (fpc = "returned" /\ \E s \in DOMAIN font : Fits(s)) =>
        /\ size \in 1..args.font_size
        /\ Fits(size)
        /\ \A s \in (size + 1)..args.font_size :
               s \in DOMAIN font /\ ~Fits(s)
        /\ char_width = font[size][1]
        /\ char_height = font[size][2]

\* C9 witness: an annotation font too wide at its initial size that fits
\* at a smaller one.
C9_Witness ==
    /\ fpc = "returned"
    /\ args.is_annotation
    /\ size >= 1
    /\ size < args.font_size
    /\ Fits(size)
    /\ font[size] # font[args.font_size]

-----------------------------------------------------------------------------
(* Reading the parameters adjust_font stores *)

\* C11: after adjust_font two stacked annotation cells are as high as one
\* content cell: 2*(annotation_char_height + annotation_char_space) =
\* content_char_height + content_char_space.
C11_CellsAligned ==
    Adjusted(params) => 2 * AnnotationCell(params) = ContentCell(params)

\* C12: a line_count of 0 is rejected before any layout work: no chapter is
\* split into Lines under such a configuration.
C12_ZeroLineCountRejected ==
    params.line_count = 0 => text_lines = <<>>

-----------------------------------------------------------------------------
(* Reading the heights of the Lines of split_paragraph *)

\* The height of a run in its column: a cell per character of a CONTENT
\* run, a cell per pair of characters of an ANNOTATION run
RunHeight(P, run) ==
    IF run.type = TextType.CONTENT
    THEN Len(run.value) * ContentCell(P)
    ELSE CeilHalf(Len(run.value)) * AnnotationCell(P)

RECURSIVE LineHeight(_, _)
LineHeight(P, runs) ==
    IF runs = <<>> THEN 0
    ELSE RunHeight(P, Head(runs)) + LineHeight(P, Tail(runs))

\* C13: every Line split_paragraph has produced fits in one column: the
\* heights of its runs sum to at most the valid column height.
C13_LineFitsColumn ==
    \A k \in 1..Len(lines) :
        LineHeight(params, lines[k].line) <= ValidHeight(params)

-----------------------------------------------------------------------------
(* Reading the title Lines of split_text *)

\* The annotation characters that fit under a title run in its column
SpaceUnderTitle(P, title) ==
    calculate_remain_char_space(
        ValidHeight(P) - P.chapter_char_height * Len(title.value),
        P.annotation_char_height, P.annotation_char_space, TRUE)

\* C14: the ANNOTATION run appended to a chapter's last title Line holds at
\* most as many characters as fit in the height left under the title in
\* that column.
C14_TitleAnnotationFits ==
    \A k \in 1..Len(text_lines) :
        LET runs == text_lines[k].line
        IN  (/\ Len(runs) >= 2
             /\ runs[1].type = TextType.CHAPTER
             /\ runs[2].type = TextType.ANNOTATION) =>
                Len(runs[2].value) <= SpaceUnderTitle(params, runs[1])

-----------------------------------------------------------------------------
(* Reading the steps of split_paragraph *)

\* The step lays out an empty sentence
EmptySentenceStep ==
    /\ pc = "sentence"
    /\ pc' \in {"annotation", "raised"}
    /\ sentences'[Len(sentences')] = <<>>

\* The step lays out an empty or absent annotation
EmptyAnnotationStep ==
    /\ pc = "annotation"
    /\ pc' \in {"sentence", "raised"}
    /\ annotations'[Len(annotations')] = <<>>

\* C15: an empty sentence, and an empty or absent annotation, is skipped
\* entirely whatever remain_height is: its step adds no Line, appends no
\* run to an existing Line and leaves remain_height as it was.
C15_EmptyItemSkipped ==
    [][(EmptySentenceStep \/ EmptyAnnotationStep) =>
           (lines' = lines /\ remain_height' = remain_height)]_vars

-----------------------------------------------------------------------------
(* Reading the chapters of the pages of gen_images *)

\* C16 as stated: every Line of a page carries the chapter name of the
\* page's first Line, the name printed in the gutter of the page.
C16_PageOneChapter ==
    \A k \in 1..Len(tasks) : \A j \in 1..Len(tasks[k].part) :
        tasks[k].part[j].chapter = tasks[k].part[1].chapter

\* The first Line of the half page that holds Line j of a page
HalfStart(j, line_count) == ((j - 1) \div line_count) * line_count + 1

\* C16 amended: every Line of a page carries the chapter name of the first
\* Line of its half page (the line_count Lines on its side of the gutter);
\* the two halves of a page may belong to different chapters.
C16_HalfPageOneChapter ==
    \A k \in 1..Len(tasks) : \A j \in 1..Len(tasks[k].part) :
        tasks[k].part[j].chapter =
            tasks[k].part[HalfStart(j, params.line_count)].chapter

\* C16 witness: a page of two halves of two Lines each, the first half the
\* title and the padding of chapter 1, the second half Lines of chapter 2.
C16_Witness ==
    /\ gpc = "collect"
    /\ params.line_count = 2
    /\ Len(tasks) >= 1
    /\ Len(tasks[1].part) = 4
    /\ tasks[1].part[2].line = <<>>
    /\ tasks[1].part[2].chapter = texts[1].chapter
    /\ tasks[1].part[3].chapter = texts[2].chapter
    /\ tasks[1].part[4].line # <<>>

-----------------------------------------------------------------------------
(* Reading the layout against the renderer *)

\* C17: whenever the last Line ends in an ANNOTATION run and is not full,
\* the height split_paragraph has subtracted for it equals the distance the
\* renderer's pen goes down the column when it draws the Line.
C17_LayoutMatchesRenderer ==
    (/\ pc \in {"sentence", "done"}
     /\ lines # <<>>
     /\ remain_height < ValidHeight(params)
     /\ lines[Len(lines)].line[Len(lines[Len(lines)].line)].type
            = TextType.ANNOTATION) =>
        ValidHeight(params) - remain_height
            = DrawnHeight(params, lines[Len(lines)].line)

-----------------------------------------------------------------------------
(* Reading the annotations of split_paragraph *)

\* C18: when split_paragraph returns, the ANNOTATION runs of its Lines, read
\* in Line order and in run order within a Line, spell the paragraph's
\* annotations in order, also when there are more annotations than
\* sentences.
C18_AnnotationsPreserved ==
    pc = "done" =>
        TextOfType(lines, TextType.ANNOTATION) = Flatten(annotations)

=============================================================================
